---- MODULE Spec2Model ----
(***************************************************************************)
(* The LinkedIn publication sequence of linkedin_post_automation.py:       *)
(* LinkedInPostAutomation.publish_to_linkedin drives the three calls of    *)
(* LinkedInAPIService (initialize_image_upload, upload_image_data,         *)
(* create_post_with_image).  The HTTP server is the environment: every     *)
(* call receives a response drawn from a small set of statuses, bodies and *)
(* headers, or fails at the transport level.                               *)
(*                                                                         *)
(* Spec is that sequence invoked by a caller on its own image file.        *)
(* SpecUI is the Streamlit script of st_linkedin_app.py around it: the     *)
(* initialisation from the environment variables, the topic, generation    *)
(* and edition handlers, the publish button that invokes the sequence on   *)
(* the temporary image of the session, and the cleanup after a success.    *)
(* SpecClean is the cleaning run_logic_for_streamlit applies to every      *)
(* generated text, over all short texts.                                   *)
(***************************************************************************)
EXTENDS Integers, Sequences, FiniteSets, TLC

\* Number of invocations of publish_to_linkedin explored in one behaviour.
MaxAttempts == 3

\* ------------------------------------------------------------------ values

\* Python's None, and an optional value holding v.
None == <<>>
Some(v) == <<v>>

\* The HTTP status the code tests for at step 3 ("201 Created").
Created == 201

\* Statuses the server may answer with: 1xx, several 2xx, 3xx, the two ends
\* of the 400..599 range that raise_for_status rejects, and one above it.
Statuses == {101, 200, 201, 202, 304, 400, 404, 599, 600}

\* The 2xx range of the specification.
Is2xx(status) == status >= 200 /\ status <= 299

\* Shapes of the body answered to initializeUpload:
\*   full      {"value": {"uploadUrl": u, "image": i}}
\*   noUrl     {"value": {"image": i}}
\*   noImage   {"value": {"uploadUrl": u}}
\*   noValue   {}
\*   valueNull {"value": null}
\*   notJson   text that is not JSON
InitBodies == {"full", "noUrl", "noImage", "noValue", "valueNull", "notJson"}

\* Bodies answered to the binary PUT and to the post creation.
PutBodies == {"put-body"}
PostBodies == {"body-a", "body-b"}

\* An identifier header of the step 3 response: absent, empty, or a value.
Absent == "<absent>"
LinkedinIdValues == {Absent, "", "urn:li:share:456"}
RestliIdValues == {Absent, "", "urn:li:share:123"}

\* What os.path / open() find at image_path.
FileStates == {"missing", "empty", "data"}

\* A file on disk.
File(path, content) == [path |-> path, content |-> content]

\* The image path a caller of publish_to_linkedin owns, and the name of the
\* n-th file tempfile.NamedTemporaryFile(suffix=".png") creates.
CallerImagePath == <<"image.png">>
TmpPath(n) == <<"tmp.png", n>>

\* Values of an environment variable: unset, empty, or set.
Unset == "<unset>"

\* The variables get_env_variable_st is asked for.
RequiredEnv == {"OPENAI_API_KEY", "SEARCH_API_KEY", "SEARCH_ENGINE_ID",
                "LINKEDIN_ACCESS_TOKEN", "LINKEDIN_USER_URN", "NEWSAPI_KEY"}

\* os.getenv("LINKEDIN_API_VERSION", "202504")
DefaultApiVersion == "202504"

EnvNames == RequiredEnv \cup {"LINKEDIN_API_VERSION"}
EnvValues == {Unset, "", "v"}

\* No LinkedInAPIService has been constructed.
NoService ==
    [access_token |-> Unset, user_urn |-> Unset, api_version |-> Unset]

\* st.session_state as lines 37-48 initialise it.
InitialSession ==
    [env_vars_loaded |-> FALSE,
     generated_content |-> "",
     image_url |-> None,
     image_path_temp |-> None,
     cleaned_text_for_publish |-> "",
     topic_input_value |-> "",
     suggested_topics |-> <<>>]

\* What a handler of the script displays: st.error, st.warning, st.info,
\* st.success, or the spinner of an operation in progress.
Message(handler, level) == [handler |-> handler, level |-> level]

\* Nothing displayed.
NoMessage == Message("", "")

\* Topics the operator types, and the articles NewsAPI answers with.
Topics == {"", "AI"}
NewsItems == {<<>>, <<[title |-> "AI", source |-> "News"]>>}

\* Texts the operator leaves in the text area.
EditedTexts == {"", "Edited"}

\* How run_logic_for_streamlit ends: the cleaned text it returns with a new
\* temporary image, a failure before the temporary file is created (search,
\* text or image generation, download), or a failure of the write into the
\* temporary file just created.
GenerateOutcomes == {"Hello world", "", "failed", "write_failed"}

\* The console_instance a LinkedInAPIService is constructed with;
\* LinkedInPostAutomation passes None, the commented alternative a Console.
Consoles == {"None", "Console"}

Captions == {"Hello world"}

\* A response of the server, or a transport failure of requests.
Response(status, body, li, restli) ==
    [kind |-> "response", status |-> status, body |-> body,
     li |-> li, restli |-> restli]
ConnectionError ==
    [kind |-> "ConnectionError", status |-> 0, body |-> "", li |-> Absent,
     restli |-> Absent]

InitResponses ==
    {Response(s, b, Absent, Absent) : s \in Statuses, b \in InitBodies}
        \cup {ConnectionError}
PutResponses ==
    {Response(s, b, Absent, Absent) : s \in Statuses, b \in PutBodies}
        \cup {ConnectionError}
\* The identifier headers vary on the 201 answers, the only ones whose
\* headers the code reads.
PostResponses ==
    {Response(Created, b, li, rl) : b \in PostBodies, li \in LinkedinIdValues,
                                    rl \in RestliIdValues}
        \cup {Response(s, b, Absent, Absent) :
                    s \in Statuses \ {Created}, b \in PostBodies}
        \cup {ConnectionError}

\* The answers explored under the Streamlit script: one accepted and one
\* rejected at each step, and at step 3 a 2xx status other than 201 as well.
ScriptStatuses == {200, 404}
ScriptInitResponses ==
    {r \in InitResponses : r.status \in ScriptStatuses /\ r.body = "full"}
ScriptPutResponses == {r \in PutResponses : r.status \in ScriptStatuses}
ScriptPostResponses ==
    {r \in PostResponses : /\ r.status \in ScriptStatuses \cup {Created}
                           /\ r.body = "body-a"
                           /\ r.li = Absent
                           /\ r.restli # ""}

\* ----------------------------------------------------------- requests

\* requests.Response.raise_for_status: raises HTTPError for 400..599 only.
RaiseForStatus(status) == status >= 400 /\ status < 600

\* requests.Response.__bool__ is Response.ok: False exactly when
\* raise_for_status raises.
ResponseTruthy(r) == ~RaiseForStatus(r.status)

\* error_body = http_err.response.text if http_err.response else '...'
ErrorBody(r) == IF ResponseTruthy(r) THEN r.body ELSE "No response body"

\* An exception: its Python type, the prefix of its message, the cause the
\* message names, and the HTTP status and response body the message holds.
Exc(type, prefix, cause, status, body) ==
    [type |-> type, prefix |-> prefix, cause |-> cause,
     status |-> status, body |-> body]

Raise(e) == [raised |-> TRUE, exc |-> e, value |-> None]
Return(v) == [raised |-> FALSE, exc |-> None, value |-> v]

\* ------------------------------------------------- LinkedInAPIService

\* data.get("value", {}).get("uploadUrl") for the session the server opened.
UploadUrlOf(r, session) ==
    IF r.body \in {"full", "noImage"} THEN Some(session) ELSE None

\* data.get("value", {}).get("image")
ImageUrnOf(r, session) ==
    IF r.body \in {"full", "noUrl"} THEN Some(session) ELSE None

\* The message of line 185, raised when uploadUrl or image is missing.
MalformedUploadResponse == "initializeUpload sin uploadUrl o image URN"

\* Step 1 with the test of line 184 requiring both values to be missing.
initialize_image_upload_result_both_missing(r, session) ==
    IF r.kind = "ConnectionError"
    THEN Raise(Exc("Exception", "Error general inicializando subida",
                   "ConnectionError", None, None))
    ELSE IF RaiseForStatus(r.status)
    THEN Raise(Exc("Exception", "Error HTTP inicializando subida",
                   "HTTPError", Some(r.status), Some(ErrorBody(r))))
    ELSE IF r.body = "notJson"
    THEN Raise(Exc("Exception", "Error general inicializando subida",
                   "JSONDecodeError", None, None))
    ELSE IF r.body = "valueNull"
    THEN Raise(Exc("Exception", "Error general inicializando subida",
                   "AttributeError", None, None))
    ELSE IF UploadUrlOf(r, session) = None /\ ImageUrnOf(r, session) = None
    THEN Raise(Exc("Exception", "Error general inicializando subida",
                   MalformedUploadResponse, None, Some(r.body)))
    ELSE Return(<<UploadUrlOf(r, session), ImageUrnOf(r, session)>>)

\* Step 1: the outcome of initialize_image_upload for response r.
initialize_image_upload_result(r, session) ==
    IF r.kind = "ConnectionError"
    THEN Raise(Exc("Exception", "Error general inicializando subida",
                   "ConnectionError", None, None))
    ELSE IF RaiseForStatus(r.status)
    THEN Raise(Exc("Exception", "Error HTTP inicializando subida",
                   "HTTPError", Some(r.status), Some(ErrorBody(r))))
    ELSE IF r.body = "notJson"
    THEN Raise(Exc("Exception", "Error general inicializando subida",
                   "JSONDecodeError", None, None))
    ELSE IF r.body = "valueNull"
    THEN Raise(Exc("Exception", "Error general inicializando subida",
                   "AttributeError", None, None))
    ELSE IF UploadUrlOf(r, session) = None \/ ImageUrnOf(r, session) = None
    THEN Raise(Exc("Exception", "Error general inicializando subida",
                   MalformedUploadResponse, None, Some(r.body)))
    ELSE Return(<<UploadUrlOf(r, session), ImageUrnOf(r, session)>>)

\* Step 2, before the PUT: open(image_path, 'rb') on a missing file.
upload_image_data_open(fileState) ==
    IF fileState = "missing"
    THEN Raise(Exc("Exception", "Error general subiendo imagen",
                   "FileNotFoundError", None, None))
    ELSE Return(TRUE)

\* Step 2: the outcome of upload_image_data for response r of the PUT.
upload_image_data_result(r) ==
    IF r.kind = "ConnectionError"
    THEN Raise(Exc("Exception", "Error general subiendo imagen",
                   "ConnectionError", None, None))
    ELSE IF RaiseForStatus(r.status)
    THEN Raise(Exc("Exception", "Error HTTP subiendo imagen",
                   "HTTPError", Some(r.status), Some(ErrorBody(r))))
    ELSE Return(TRUE)

\* The two headers read in the other order.
PostIdOf_restli_first(r) ==
    IF r.restli # Absent /\ r.restli # "" THEN Some(r.restli)
    ELSE IF r.li # Absent THEN Some(r.li)
    ELSE None

\* response.headers.get("x-linkedin-id") or response.headers.get("x-restli-id")
PostIdOf(r) ==
    IF r.li # Absent /\ r.li # "" THEN Some(r.li)
    ELSE IF r.restli # Absent THEN Some(r.restli)
    ELSE None

\* The handler "except Exception as e" of create_post_with_image: it calls
\* self.console.print directly, which raises AttributeError on a None console.
create_post_general_handler(con, cause, status, body) ==
    IF con = "None"
    THEN Raise(Exc("AttributeError",
                   "'NoneType' object has no attribute 'print'",
                   cause, None, None))
    ELSE Raise(Exc("Exception", "Error general creando post",
                   cause, status, body))

\* Step 3 taking every 2xx status as a success.
create_post_with_image_result_any_2xx(r, con) ==
    IF r.kind = "ConnectionError"
    THEN create_post_general_handler(con, "ConnectionError", None, None)
    ELSE IF Is2xx(r.status)
    THEN Return(<<TRUE, PostIdOf(r)>>)
    ELSE IF RaiseForStatus(r.status)
    THEN Raise(Exc("Exception", "Error HTTP creando post",
                   "HTTPError", Some(r.status), Some(ErrorBody(r))))
    ELSE create_post_general_handler(con, "Error creando post",
                                     Some(r.status), Some(r.body))

\* Step 3 treating a 201 without identifier header as a failure.
create_post_with_image_result_requires_id(r, con) ==
    IF r.kind = "ConnectionError"
    THEN create_post_general_handler(con, "ConnectionError", None, None)
    ELSE IF r.status = Created /\ PostIdOf(r) # None
    THEN Return(<<TRUE, PostIdOf(r)>>)
    ELSE IF RaiseForStatus(r.status)
    THEN Raise(Exc("Exception", "Error HTTP creando post",
                   "HTTPError", Some(r.status), Some(ErrorBody(r))))
    ELSE create_post_general_handler(con, "Error creando post",
                                     Some(r.status), Some(r.body))

\* Step 3 reporting a status other than 201 by its return value.
create_post_with_image_result_returns_false(r, con) ==
    IF r.kind = "ConnectionError"
    THEN create_post_general_handler(con, "ConnectionError", None, None)
    ELSE IF r.status = Created
    THEN Return(<<TRUE, PostIdOf(r)>>)
    ELSE Return(<<FALSE, None>>)

\* Step 3: the outcome of create_post_with_image for response r.
create_post_with_image_result(r, con) ==
    IF r.kind = "ConnectionError"
    THEN create_post_general_handler(con, "ConnectionError", None, None)
    ELSE IF r.status = Created
    THEN Return(<<TRUE, PostIdOf(r)>>)
    ELSE IF RaiseForStatus(r.status)
    THEN Raise(Exc("Exception", "Error HTTP creando post",
                   "HTTPError", Some(r.status), Some(ErrorBody(r))))
    ELSE create_post_general_handler(con, "Error creando post",
                                     Some(r.status), Some(r.body))

\* ------------------------------------------------------------------ state

VARIABLES
    pc,            \* position of publish_to_linkedin
    attempt,       \* invocations of publish_to_linkedin so far
    text_content,  \* argument of the current invocation
    upload_url,    \* local of publish_to_linkedin
    image_urn,     \* local of publish_to_linkedin
    result,        \* the value returned, None when none
    exc,           \* the exception raised, None when none
    calls,         \* HTTP requests sent so far, each with its invocation
    resp,          \* responses received by the current invocation, per step
    issuedIn,      \* issuedIn[s]: the invocation whose step 1 got session s
    console,       \* LinkedInAPIService.console
    image_path,    \* argument of the current invocation
    disk,          \* the image files on disk: their paths and contents
    service,       \* access_token, user_urn, api_version of the service
    env,           \* the environment variables of the process
    session_state, \* st.session_state of the Streamlit script
    message,       \* what the script displayed last
    tmp_count,     \* temporary files generate_image has created so far
    net_used,      \* whether the process has sent any network request
    post_content_raw,     \* local of run_logic_for_streamlit
    post_content_cleaned  \* local of run_logic_for_streamlit

\* The text run_logic_for_streamlit received and the text it made of it.
cleanVars == <<post_content_raw, post_content_cleaned>>

\* The state of the Streamlit script, untouched by LinkedInAPIService.
uiVars == <<env, session_state, message, tmp_count, net_used, cleanVars>>

vars == <<pc, attempt, text_content, upload_url, image_urn, result, exc,
          calls, resp, issuedIn, console, image_path, disk, service, uiVars>>

\* What open() finds at image_path.
file ==
    IF image_path # None /\ \E f \in disk : f.path = image_path[1]
    THEN (CHOOSE f \in disk : f.path = image_path[1]).content
    ELSE "missing"

NoResp == [s \in {1, 2, 3} |-> None]

\* An HTTP request of the current invocation: the endpoint and the session
\* value (upload URL or image URN) it is addressed with.
Call(op, arg) == [op |-> op, arg |-> arg, attempt |-> attempt]

\* The requests of the current invocation, in order.
CurrentCalls == SelectSeq(calls, LAMBDA c : c.attempt = attempt)

Init ==
    /\ pc = "idle"
    /\ attempt = 0
    /\ text_content = None
    /\ upload_url = None
    /\ image_urn = None
    /\ result = None
    /\ exc = None
    /\ calls = <<>>
    /\ resp = NoResp
    /\ issuedIn = <<>>
    /\ console \in Consoles
    /\ image_path = Some(CallerImagePath)
    /\ disk \in {{}} \cup {{File(CallerImagePath, c)} :
                                c \in FileStates \ {"missing"}}
    /\ env = [v \in EnvNames |->
                 IF v = "LINKEDIN_API_VERSION" THEN Unset ELSE "v"]
    /\ service = [access_token |-> env["LINKEDIN_ACCESS_TOKEN"],
                  user_urn |-> env["LINKEDIN_USER_URN"],
                  api_version |-> DefaultApiVersion]
    /\ session_state = InitialSession
    /\ message = NoMessage
    /\ tmp_count = 0
    /\ net_used = FALSE
    /\ post_content_raw = None
    /\ post_content_cleaned = None

\* An invocation that resumes with the pair left by the previous one.
publish_entry_keeps_session(old_url, old_urn) ==
    [pc |-> IF old_url # None /\ old_urn # None THEN "step2" ELSE "step1",
     upload_url |-> old_url, image_urn |-> old_urn]

\* The frame of a new invocation: where it starts and what its locals hold.
publish_entry(old_url, old_urn) ==
    [pc |-> "step1", upload_url |-> None, image_urn |-> None]

\* publish_to_linkedin(text_content, image_path) is entered.
publish_to_linkedin(text, path) ==
    /\ attempt < MaxAttempts
    /\ attempt' = attempt + 1
    /\ text_content' = Some(text)
    /\ image_path' = Some(path)
    /\ pc' = publish_entry(upload_url, image_urn).pc
    /\ upload_url' = publish_entry(upload_url, image_urn).upload_url
    /\ image_urn' = publish_entry(upload_url, image_urn).image_urn
    /\ result' = None
    /\ exc' = None
    /\ resp' = NoResp
    /\ UNCHANGED <<calls, issuedIn, console, service>>

\* A caller other than the Streamlit script invokes publish_to_linkedin on
\* its own image file, again after each outcome.
caller_publishes(text) ==
    /\ pc \in {"idle", "returned", "raised"}
    /\ publish_to_linkedin(text, CallerImagePath)
    /\ UNCHANGED <<disk, uiVars>>

\* Step 1 replacing the access token of the service by one it derives from
\* the answer.
initialize_image_upload_renews_token(r) ==
    LET session == Len(issuedIn) + 1
        out == initialize_image_upload_result(r, session)
    IN  /\ pc = "step1"
        /\ calls' = Append(calls, Call("initializeUpload", None))
        /\ resp' = [resp EXCEPT ![1] = Some(r)]
        /\ issuedIn' = Append(issuedIn, attempt)
        /\ IF out.raised
           THEN /\ pc' = "raised"
                /\ exc' = Some(out.exc)
                /\ service' = [service EXCEPT !.access_token = "renewed"]
                /\ UNCHANGED <<upload_url, image_urn>>
           ELSE /\ pc' = "step2"
                /\ upload_url' = out.value[1]
                /\ image_urn' = out.value[2]
                /\ UNCHANGED <<exc, service>>
        /\ UNCHANGED <<attempt, text_content, result, console, image_path,
                       disk, uiVars>>

\* Line 413: upload_url, image_urn = initialize_image_upload()
initialize_image_upload(r) ==
    LET session == Len(issuedIn) + 1
        out == initialize_image_upload_result(r, session)
    IN  /\ pc = "step1"
        /\ calls' = Append(calls, Call("initializeUpload", None))
        /\ resp' = [resp EXCEPT ![1] = Some(r)]
        /\ issuedIn' = Append(issuedIn, attempt)
        /\ IF out.raised
           THEN /\ pc' = "raised"
                /\ exc' = Some(out.exc)
                /\ UNCHANGED <<upload_url, image_urn>>
           ELSE /\ pc' = "step2"
                /\ upload_url' = out.value[1]
                /\ image_urn' = out.value[2]
                /\ UNCHANGED exc
        /\ UNCHANGED <<attempt, text_content, result, console, image_path,
                       disk, service, uiVars>>

\* Line 416: upload_image_data(upload_url, image_path), the file is missing.
upload_image_data_nofile ==
    /\ pc = "step2"
    /\ upload_image_data_open(file).raised
    /\ pc' = "raised"
    /\ exc' = Some(upload_image_data_open(file).exc)
    /\ UNCHANGED <<attempt, text_content, upload_url, image_urn, result,
                   calls, resp, issuedIn, console, image_path, disk,
                       service, uiVars>>

\* Step 2 with its failure caught and logged by the caller, which goes on.
upload_image_data_swallowed(r) ==
    LET out == upload_image_data_result(r)
    IN  /\ pc = "step2"
        /\ ~upload_image_data_open(file).raised
        /\ calls' = Append(calls, Call("put", upload_url))
        /\ resp' = [resp EXCEPT ![2] = Some(r)]
        /\ pc' = "step3"
        /\ exc' = IF out.raised THEN Some(out.exc) ELSE exc
        /\ UNCHANGED <<attempt, text_content, upload_url, image_urn, result,
                       issuedIn, console, image_path, disk,
                       service, uiVars>>

\* Step 2 deleting the image file once its bytes were accepted.
upload_image_data_unlinks(r) ==
    LET out == upload_image_data_result(r)
    IN  /\ pc = "step2"
        /\ ~upload_image_data_open(file).raised
        /\ calls' = Append(calls, Call("put", upload_url))
        /\ resp' = [resp EXCEPT ![2] = Some(r)]
        /\ IF out.raised
           THEN /\ pc' = "raised"
                /\ exc' = Some(out.exc)
                /\ UNCHANGED disk
           ELSE /\ pc' = "step3"
                /\ disk' = {f \in disk : f.path # image_path[1]}
                /\ UNCHANGED exc
        /\ UNCHANGED <<attempt, text_content, upload_url, image_urn, result,
                       issuedIn, console, image_path, service, uiVars>>

\* Step 2 sending the PUT to the same upload URL once more after a failure.
upload_image_data_retried(r) ==
    LET out == upload_image_data_result(r)
        sent == Len(SelectSeq(CurrentCalls, LAMBDA c : c.op = "put"))
    IN  /\ pc = "step2"
        /\ ~upload_image_data_open(file).raised
        /\ calls' = Append(calls, Call("put", upload_url))
        /\ resp' = [resp EXCEPT ![2] = Some(r)]
        /\ IF out.raised
           THEN /\ pc' = IF sent = 0 THEN "step2" ELSE "raised"
                /\ exc' = Some(out.exc)
           ELSE /\ pc' = "step3"
                /\ UNCHANGED exc
        /\ UNCHANGED <<attempt, text_content, upload_url, image_urn, result,
                       issuedIn, console, image_path, disk,
                       service, uiVars>>

\* Line 416: upload_image_data(upload_url, image_path), the PUT is sent.
upload_image_data(r) ==
    LET out == upload_image_data_result(r)
    IN  /\ pc = "step2"
        /\ ~upload_image_data_open(file).raised
        /\ calls' = Append(calls, Call("put", upload_url))
        /\ resp' = [resp EXCEPT ![2] = Some(r)]
        /\ IF out.raised
           THEN /\ pc' = "raised"
                /\ exc' = Some(out.exc)
           ELSE /\ pc' = "step3"
                /\ UNCHANGED exc
        /\ UNCHANGED <<attempt, text_content, upload_url, image_urn, result,
                       issuedIn, console, image_path, disk,
                       service, uiVars>>

\* Lines 419-422: success, post_id = create_post_with_image(...); return.
create_post_with_image(r) ==
    LET out == create_post_with_image_result(r, console)
    IN  /\ pc = "step3"
        /\ calls' = Append(calls, Call("posts", image_urn))
        /\ resp' = [resp EXCEPT ![3] = Some(r)]
        /\ IF out.raised
           THEN /\ pc' = "raised"
                /\ exc' = Some(out.exc)
                /\ UNCHANGED result
           ELSE /\ pc' = "returned"
                /\ result' = Some(out.value)
                /\ UNCHANGED exc
        /\ UNCHANGED <<attempt, text_content, upload_url, image_urn,
                       issuedIn, console, image_path, disk,
                       service, uiVars>>

Next ==
    \/ \E text \in Captions : caller_publishes(text)
    \/ \E r \in InitResponses : initialize_image_upload(r)
    \/ upload_image_data_nofile
    \/ \E r \in PutResponses : upload_image_data(r)
    \/ \E r \in PostResponses : create_post_with_image(r)

Spec == Init /\ [][Next]_vars

\* ------------------------------------------------------ st_linkedin_app

\* Number of temporary image files generate_image creates in one behaviour.
MaxGenerations == 2

\* get_env_variable_st rejecting only a variable that is not set.
get_env_variable_st_accepts_empty(var_name) ==
    IF env[var_name] = Unset
    THEN Raise(Exc("ValueError", "Variable de entorno no configurada",
                   var_name, None, None))
    ELSE Return(env[var_name])

\* get_env_variable_st: the value of the variable, ValueError when it is
\* unset or empty.
get_env_variable_st(var_name) ==
    IF env[var_name] = Unset \/ env[var_name] = ""
    THEN Raise(Exc("ValueError", "Variable de entorno no configurada",
                   var_name, None, None))
    ELSE Return(env[var_name])

\* LinkedInPostAutomation.__init__: the service it constructs, or the
\* ValueError of a required variable that is missing.
LinkedInPostAutomation ==
    IF \E v \in RequiredEnv : get_env_variable_st(v).raised
    THEN Raise(get_env_variable_st(
                   CHOOSE v \in RequiredEnv : get_env_variable_st(v).raised
               ).exc)
    ELSE Return([access_token |->
                     get_env_variable_st("LINKEDIN_ACCESS_TOKEN").value,
                 user_urn |-> get_env_variable_st("LINKEDIN_USER_URN").value,
                 api_version |->
                     IF env["LINKEDIN_API_VERSION"] = Unset
                     THEN DefaultApiVersion
                     ELSE env["LINKEDIN_API_VERSION"]])

\* os.path.exists(path)
exists(path) == \E f \in disk : f.path = path

\* cleanup_temp_image: the disk it leaves and the value it returns; os.unlink
\* succeeds or raises.
cleanup_temp_image(path, unlink_ok) ==
    IF path # None /\ exists(path[1])
    THEN IF unlink_ok
         THEN [disk |-> {f \in disk : f.path # path[1]}, value |-> TRUE]
         ELSE [disk |-> disk, value |-> FALSE]
    ELSE [disk |-> disk, value |-> TRUE]

\* The script has not run yet; the environment holds any values.
InitUI ==
    /\ pc = "start"
    /\ attempt = 0
    /\ text_content = None
    /\ upload_url = None
    /\ image_urn = None
    /\ result = None
    /\ exc = None
    /\ calls = <<>>
    /\ resp = NoResp
    /\ issuedIn = <<>>
    /\ console = "None"
    /\ image_path = None
    /\ disk = {}
    /\ env \in [EnvNames -> EnvValues]
    /\ service = NoService
    /\ session_state = InitialSession
    /\ message = NoMessage
    /\ tmp_count = 0
    /\ net_used = FALSE
    /\ post_content_raw = None
    /\ post_content_cleaned = None

\* The widgets are drawn and no publication is in progress.
Ready == pc = "idle" /\ session_state.env_vars_loaded

\* Lines 18-48: the first run of the script.
session_init ==
    /\ pc = "start"
    /\ pc' = "idle"
    /\ IF LinkedInPostAutomation.raised
       THEN /\ session_state' = InitialSession
            /\ message' = Message("session_init", "error")
            /\ UNCHANGED service
       ELSE /\ session_state' = [InitialSession EXCEPT !.env_vars_loaded = TRUE]
            /\ message' = Message("session_init", "info")
            /\ service' = LinkedInPostAutomation.value
    /\ UNCHANGED <<attempt, text_content, upload_url, image_urn, result, exc,
                   calls, resp, issuedIn, console, image_path, disk, env,
                   tmp_count, net_used>>
    /\ UNCHANGED cleanVars

\* Lines 57-73: "Buscar Noticias de IA".
search_news_button(news_items) ==
    /\ Ready
    /\ net_used' = TRUE
    /\ IF news_items # <<>>
       THEN /\ session_state' =
                  [session_state EXCEPT !.suggested_topics = news_items]
            /\ message' = NoMessage
       ELSE /\ message' = Message("search_news_button", "warning")
            /\ UNCHANGED session_state
    /\ UNCHANGED <<pc, attempt, text_content, upload_url, image_urn, result,
                   exc, calls, resp, issuedIn, console, image_path, disk,
                   service, env, tmp_count>>
    /\ UNCHANGED cleanVars

\* Lines 75-83: a suggested topic is clicked.
suggestion_button(i) ==
    /\ Ready
    /\ i \in 1..Len(session_state.suggested_topics)
    /\ session_state' =
           [session_state EXCEPT
               !.topic_input_value = session_state.suggested_topics[i].title]
    /\ message' = Message("suggestion_button", "info")
    /\ UNCHANGED <<pc, attempt, text_content, upload_url, image_urn, result,
                   exc, calls, resp, issuedIn, console, image_path, disk,
                   service, env, tmp_count, net_used>>
    /\ UNCHANGED cleanVars

\* Lines 93-108: the operator types a topic.
topic_input_main(topic) ==
    /\ Ready
    /\ session_state' = [session_state EXCEPT !.topic_input_value = topic]
    /\ message' = NoMessage
    /\ UNCHANGED <<pc, attempt, text_content, upload_url, image_urn, result,
                   exc, calls, resp, issuedIn, console, image_path, disk,
                   service, env, tmp_count, net_used>>
    /\ UNCHANGED cleanVars

\* Lines 111-131: "Generar Contenido y Vista Previa".
generate_button(outcome) ==
    /\ Ready
    /\ IF session_state.topic_input_value = ""
       THEN /\ message' = Message("generate_button", "warning")
            /\ UNCHANGED <<session_state, disk, tmp_count, net_used>>
       ELSE /\ net_used' = TRUE
            /\ IF outcome = "failed"
               THEN /\ session_state' =
                          [session_state EXCEPT
                              !.generated_content = "",
                              !.image_url = None,
                              !.image_path_temp = None,
                              !.cleaned_text_for_publish = ""]
                    /\ message' = Message("generate_button", "error")
                    /\ UNCHANGED <<disk, tmp_count>>
               ELSE /\ tmp_count < MaxGenerations
                    /\ tmp_count' = tmp_count + 1
                    /\ IF outcome = "write_failed"
                       THEN /\ disk' = disk \cup
                                   {File(TmpPath(tmp_count + 1), "empty")}
                            /\ session_state' =
                                  [session_state EXCEPT
                                      !.generated_content = "",
                                      !.image_url = None,
                                      !.image_path_temp = None,
                                      !.cleaned_text_for_publish = ""]
                            /\ message' = Message("generate_button", "error")
                       ELSE /\ disk' = disk \cup
                                   {File(TmpPath(tmp_count + 1), "data")}
                            /\ session_state' =
                                  [session_state EXCEPT
                                      !.generated_content = outcome,
                                      !.cleaned_text_for_publish = outcome,
                                      !.image_url = Some("dalle-url"),
                                      !.image_path_temp =
                                          Some(TmpPath(tmp_count + 1))]
                            /\ message' = Message("generate_button", "success")
    /\ UNCHANGED <<pc, attempt, text_content, upload_url, image_urn, result,
                   exc, calls, resp, issuedIn, console, image_path, service,
                   env>>
    /\ UNCHANGED cleanVars

\* Lines 134-143: the operator edits the text of the preview.
text_edit_area(edited_text) ==
    /\ Ready
    /\ session_state.generated_content # ""
    /\ session_state' =
           [session_state EXCEPT !.cleaned_text_for_publish = edited_text]
    /\ message' = NoMessage
    /\ UNCHANGED <<pc, attempt, text_content, upload_url, image_urn, result,
                   exc, calls, resp, issuedIn, console, image_path, disk,
                   service, env, tmp_count, net_used>>
    /\ UNCHANGED cleanVars

\* "Publicar en LinkedIn" starting a publication whenever a temporary path
\* is recorded, without looking for the file.
publish_button_unchecked ==
    /\ Ready
    /\ session_state.generated_content # ""
    /\ IF \/ session_state.cleaned_text_for_publish = ""
          \/ session_state.image_path_temp = None
       THEN /\ message' = Message("publish_button", "error")
            /\ UNCHANGED <<pc, attempt, text_content, upload_url, image_urn,
                           result, exc, calls, resp, issuedIn, console,
                           image_path, service>>
       ELSE /\ publish_to_linkedin(session_state.cleaned_text_for_publish,
                                   session_state.image_path_temp[1])
            /\ message' = Message("publish_button", "spinner")
    /\ UNCHANGED <<disk, env, session_state, tmp_count, net_used>>
    /\ UNCHANGED cleanVars

\* Lines 155-168: "Publicar en LinkedIn" is clicked; the publication starts
\* when there is a text, a recorded path and a file at that path.
publish_button ==
    /\ Ready
    /\ session_state.generated_content # ""
    /\ IF \/ session_state.cleaned_text_for_publish = ""
          \/ session_state.image_path_temp = None
       THEN /\ message' = Message("publish_button", "error")
            /\ UNCHANGED <<pc, attempt, text_content, upload_url, image_urn,
                           result, exc, calls, resp, issuedIn, console,
                           image_path, service>>
       ELSE IF ~exists(session_state.image_path_temp[1])
       THEN /\ message' = Message("publish_button", "error")
            /\ UNCHANGED <<pc, attempt, text_content, upload_url, image_urn,
                           result, exc, calls, resp, issuedIn, console,
                           image_path, service>>
       ELSE /\ publish_to_linkedin(session_state.cleaned_text_for_publish,
                                   session_state.image_path_temp[1])
            /\ message' = Message("publish_button", "spinner")
    /\ UNCHANGED <<disk, env, session_state, tmp_count, net_used>>
    /\ UNCHANGED cleanVars

\* The session after a success with the generated text left in place.
session_after_success_keeps_text(ss) ==
    [ss EXCEPT !.image_url = None,
               !.image_path_temp = None,
               !.topic_input_value = "",
               !.suggested_topics = <<>>]

\* Lines 172-178: the session state the script leaves after a success.
session_after_success(ss) ==
    [ss EXCEPT !.generated_content = "",
               !.image_url = None,
               !.image_path_temp = None,
               !.cleaned_text_for_publish = "",
               !.topic_input_value = "",
               !.suggested_topics = <<>>]

\* The end of a publication that clears the session whatever the outcome.
publish_button_done_always_clears(unlink_ok) ==
    /\ pc \in {"returned", "raised"}
    /\ session_state.env_vars_loaded
    /\ pc' = "idle"
    /\ message' = Message("publish_button",
                          IF pc = "returned" THEN "success" ELSE "error")
    /\ disk' = cleanup_temp_image(session_state.image_path_temp,
                                  unlink_ok).disk
    /\ session_state' =
          session_after_success(session_state)
    /\ text_content' = None
    /\ image_path' = None
    /\ upload_url' = None
    /\ image_urn' = None
    /\ result' = None
    /\ exc' = None
    /\ resp' = NoResp
    /\ UNCHANGED <<attempt, calls, issuedIn, console, service, env,
                   tmp_count, net_used>>
    /\ UNCHANGED cleanVars

\* Lines 169-183: publish_to_linkedin has returned or raised; its frame,
\* with its arguments, locals and outcome, is gone afterwards.
publish_button_done(unlink_ok) ==
    /\ pc \in {"returned", "raised"}
    /\ session_state.env_vars_loaded
    /\ pc' = "idle"
    /\ IF pc = "returned" /\ result[1][1]
       THEN /\ message' = Message("publish_button", "success")
            /\ disk' = cleanup_temp_image(session_state.image_path_temp,
                                          unlink_ok).disk
            /\ session_state' =
                  session_after_success(session_state)
       ELSE /\ message' = Message("publish_button", "error")
            /\ UNCHANGED <<disk, session_state>>
    /\ text_content' = None
    /\ image_path' = None
    /\ upload_url' = None
    /\ image_urn' = None
    /\ result' = None
    /\ exc' = None
    /\ resp' = NoResp
    /\ UNCHANGED <<attempt, calls, issuedIn, console, service, env,
                   tmp_count, net_used>>
    /\ UNCHANGED cleanVars

\* The operating system or another process removes a temporary file.
tmp_file_removed(f) ==
    /\ pc # "start"
    /\ f \in disk
    /\ disk' = disk \ {f}
    /\ UNCHANGED <<pc, attempt, text_content, upload_url, image_urn, result,
                   exc, calls, resp, issuedIn, console, image_path, service,
                   uiVars>>

NextUI ==
    \/ session_init
    \/ \E news_items \in NewsItems : search_news_button(news_items)
    \/ \E i \in {1} : suggestion_button(i)
    \/ \E topic \in Topics : topic_input_main(topic)
    \/ \E outcome \in GenerateOutcomes : generate_button(outcome)
    \/ \E edited_text \in EditedTexts : text_edit_area(edited_text)
    \/ publish_button
    \/ \E r \in ScriptInitResponses : initialize_image_upload(r)
    \/ upload_image_data_nofile
    \/ \E r \in ScriptPutResponses : upload_image_data(r)
    \/ \E r \in ScriptPostResponses : create_post_with_image(r)
    \/ \E unlink_ok \in BOOLEAN : publish_button_done(unlink_ok)
    \/ \E f \in disk : tmp_file_removed(f)

SpecUI == InitUI /\ [][NextUI]_vars

\* ----------------------------------------------- run_logic_for_streamlit

\* Length of the longest generated text explored.
MaxTextLen == 6

\* A text is a sequence of characters: carriage return, newline, space, tab
\* and a letter.
CR == "\\r"
LF == "\\n"
SP == " "
TAB == "\\t"
Chars == {CR, LF, SP, TAB, "a"}

\* The characters str.strip() removes.
Whitespace == {CR, LF, SP, TAB}

Texts == UNION {[1..n -> Chars] : n \in 0..MaxTextLen}

\* str.replace(old, new): every occurrence of old, found from the left and
\* without overlap, becomes new.
RECURSIVE replace(_, _, _)
replace(s, old, new) ==
    IF Len(s) < Len(old)
    THEN s
    ELSE IF SubSeq(s, 1, Len(old)) = old
    THEN new \o replace(SubSeq(s, Len(old) + 1, Len(s)), old, new)
    ELSE <<s[1]>> \o replace(Tail(s), old, new)

\* The number of newlines s starts with.
RECURSIVE LeadingNewlines(_)
LeadingNewlines(s) ==
    IF s # <<>> /\ s[1] = LF THEN 1 + LeadingNewlines(Tail(s)) ELSE 0

\* re.sub(r'\n{3,}', '\n\n', s): every maximal run of three or more newlines
\* becomes two newlines.
RECURSIVE re_sub_newlines(_)
re_sub_newlines(s) ==
    IF s = <<>>
    THEN <<>>
    ELSE IF s[1] = LF
    THEN LET n == LeadingNewlines(s)
         IN  (IF n >= 3 THEN <<LF, LF>> ELSE SubSeq(s, 1, n))
                 \o re_sub_newlines(SubSeq(s, n + 1, Len(s)))
    ELSE <<s[1]>> \o re_sub_newlines(Tail(s))

\* The characters of s before its first newline.
RECURSIVE FirstLine(_)
FirstLine(s) ==
    IF s = <<>> \/ s[1] = LF THEN <<>> ELSE <<s[1]>> \o FirstLine(Tail(s))

\* s.split('\n'): the lines of s, one more than it has newlines.
RECURSIVE split(_)
split(s) ==
    LET line == FirstLine(s)
    IN  IF Len(line) = Len(s)
        THEN <<line>>
        ELSE <<line>> \o split(SubSeq(s, Len(line) + 2, Len(s)))

\* str.lstrip() and str.strip(): without the whitespace at the ends.
RECURSIVE lstrip(_)
lstrip(s) ==
    IF s # <<>> /\ s[1] \in Whitespace THEN lstrip(Tail(s)) ELSE s

RECURSIVE strip(_)
strip(s) ==
    IF lstrip(s) # <<>> /\ lstrip(s)[Len(lstrip(s))] \in Whitespace
    THEN strip(SubSeq(lstrip(s), 1, Len(lstrip(s)) - 1))
    ELSE lstrip(s)

\* '\n'.join(lines)
RECURSIVE join(_)
join(lines) ==
    IF lines = <<>>
    THEN <<>>
    ELSE IF Len(lines) = 1
    THEN lines[1]
    ELSE lines[1] \o <<LF>> \o join(Tail(lines))

\* Lines 437-441: the cleaned text of a generated text.
CleanText(raw) ==
    LET normalised == replace(replace(raw, <<CR, LF>>, <<LF>>), <<CR>>, <<LF>>)
        text_cleaned == re_sub_newlines(normalised)
        lines == split(text_cleaned)
        lines_cleaned == [i \in 1..Len(lines) |-> strip(lines[i])]
    IN  strip(join(lines_cleaned))

\* generate_post_content has returned a text, stripped (line 377); nothing
\* else of the program has run.
InitClean ==
    /\ pc = "idle"
    /\ attempt = 0
    /\ text_content = None
    /\ upload_url = None
    /\ image_urn = None
    /\ result = None
    /\ exc = None
    /\ calls = <<>>
    /\ resp = NoResp
    /\ issuedIn = <<>>
    /\ console = "None"
    /\ image_path = None
    /\ disk = {}
    /\ env = [v \in EnvNames |->
                 IF v = "LINKEDIN_API_VERSION" THEN Unset ELSE "v"]
    /\ service = [access_token |-> env["LINKEDIN_ACCESS_TOKEN"],
                  user_urn |-> env["LINKEDIN_USER_URN"],
                  api_version |-> DefaultApiVersion]
    /\ session_state = [InitialSession EXCEPT !.env_vars_loaded = TRUE]
    /\ message = NoMessage
    /\ tmp_count = 0
    /\ net_used = TRUE
    /\ post_content_raw \in {Some(strip(t)) : t \in Texts}
    /\ post_content_cleaned = None

\* Lines 434-442 of run_logic_for_streamlit: the generated text is cleaned.
run_logic_for_streamlit ==
    /\ post_content_raw # None
    /\ post_content_cleaned = None
    /\ post_content_cleaned' = Some(CleanText(post_content_raw[1]))
    /\ UNCHANGED <<pc, attempt, text_content, upload_url, image_urn, result,
                   exc, calls, resp, issuedIn, console, image_path, disk,
                   service, env, session_state, message, tmp_count, net_used,
                   post_content_raw>>

NextClean == run_logic_for_streamlit

SpecClean == InitClean /\ [][NextClean]_vars

\* ----------------------------------------------------------- properties

\* The three requests of the protocol, in order.
Protocol == <<"initializeUpload", "put", "posts">>

Ops(cs) == [i \in 1..Len(cs) |-> cs[i].op]

IsPrefix(s, t) == Len(s) <= Len(t) /\ \A i \in 1..Len(s) : s[i] = t[i]

\* Step k of the current invocation received an answer from the server.
Answered(k) == resp[k] # None /\ resp[k][1].kind = "response"

\* Step k of the current invocation was answered with a 2xx status.
Answered2xx(k) == Answered(k) /\ Is2xx(resp[k][1].status)

\* C1: an invocation of publish_to_linkedin ends either by returning
\* (True, post_id) after the three requests were sent and answered (none with
\* a transport error or a 400..599 status, step 1 with both values, step 3
\* with 201), or by raising; it never returns a value that is not a success.
C1_ReturnsSuccessOrRaises ==
    /\ (result # None) <=> (pc = "returned")
    /\ (exc # None) <=> (pc = "raised")
    /\ pc = "returned" =>
          /\ result[1][1] = TRUE
          /\ Ops(CurrentCalls) = Protocol
          /\ \A k \in {1, 2, 3} :
                Answered(k) /\ ~(resp[k][1].status \in 400..599)
          /\ resp[1][1].body = "full"
          /\ resp[3][1].status = Created

C1_Witness ==
    /\ pc = "returned"
    /\ result = Some(<<TRUE, Some("urn:li:share:456")>>)

\* C2: within one invocation the requests sent are a prefix of
\* <initializeUpload, put, posts>, so no step is sent twice; the PUT is sent
\* only once step 1 has returned its pair, the post only once the PUT was
\* answered, and no request is sent once a step has raised.
C2_CallsArePrefixOfProtocol ==
    /\ [](IsPrefix(Ops(CurrentCalls), Protocol))
    /\ [][calls' # calls =>
            /\ exc = None
            /\ exc' # None => pc' = "raised"
            /\ Len(CurrentCalls') = 2 =>
                  Answered(1) /\ upload_url # None /\ image_urn # None
            /\ Len(CurrentCalls') = 3 => Answered(2)]_vars

C2_Witness ==
    /\ pc = "raised"
    /\ Ops(CurrentCalls) = <<"initializeUpload", "put">>
    /\ attempt = 2

C4_NonSuccessPutAborts ==
    (Answered2xx(1) /\ Answered(2) /\ ~Is2xx(resp[2][1].status))
    => /\ pc = "raised"
       /\ exc[1].prefix = "Error HTTP subiendo imagen"
       /\ Ops(CurrentCalls) = <<"initializeUpload", "put">>

\* C5: whenever step 1 is answered with a status outside 200..299, it raises
\* the HTTP failure of step 1, and the failure holds the status and the body
\* of the answer.
C5_InitiationFailureCarriesStatusAndBody ==
    (Answered(1) /\ ~Is2xx(resp[1][1].status))
    => /\ pc = "raised"
       /\ exc[1].prefix = "Error HTTP inicializando subida"
       /\ exc[1].status = Some(resp[1][1].status)
       /\ exc[1].body = Some(resp[1][1].body)

\* C6: publish returns only when step 3 was answered with 201, and raises
\* for every other outcome of step 3 (200 and 202 included).
C6_OnlyCreatedIsSuccess ==
    /\ pc = "returned" => Answered(3) /\ resp[3][1].status = Created
    /\ (resp[3] # None /\ ~(Answered(3) /\ resp[3][1].status = Created))
       => pc = "raised" /\ result = None

C6_Witness ==
    /\ Answered(3)
    /\ resp[3][1].status = 202
    /\ pc = "raised"

\* C7: with the console LinkedInPostAutomation passes (None), whenever step 3
\* (sent after 2xx answers to steps 1 and 2) is answered with a status other
\* than 201, publish raises the failure of step 3 and that failure holds the
\* status and the body of the answer.
C7_PostFailureCarriesStatusAndBody ==
    (/\ Answered2xx(1) /\ Answered2xx(2)
     /\ Answered(3) /\ resp[3][1].status # Created /\ console = "None")
    => /\ pc = "raised"
       /\ exc[1].type = "Exception"
       /\ exc[1].prefix \in {"Error HTTP creando post",
                              "Error general creando post"}
       /\ exc[1].status = Some(resp[3][1].status)
       /\ exc[1].body = Some(resp[3][1].body)

\* C8: when step 3 is answered with 201 and neither x-linkedin-id nor
\* x-restli-id, publish returns (True, None): a success whose identifier is
\* the value None, which no header value equals.
C8_CreatedWithoutIdIsSuccess ==
    (/\ Answered(3)
     /\ resp[3][1].status = Created
     /\ resp[3][1].li = Absent
     /\ resp[3][1].restli = Absent)
    => /\ pc = "returned"
       /\ result = Some(<<TRUE, None>>)
       /\ exc = None

C8_Witness ==
    /\ pc = "returned"
    /\ resp[3][1].li = Absent
    /\ resp[3][1].restli = Absent
    /\ result[1][2] = None

\* The identifier headers present in answer r.
PresentIds(r) == {r.li, r.restli} \ {Absent}

\* C9 as stated: when steps 1 and 2 are answered 2xx and step 3 is answered
\* with 201 and at least one of the two identifier headers, publish returns
\* the value of a header that was present: x-linkedin-id when present and
\* non-empty, x-restli-id otherwise.
C9_ReturnsPresentHeaderValue ==
    (/\ Answered2xx(1) /\ Answered2xx(2)
     /\ Answered(3) /\ resp[3][1].status = Created
     /\ PresentIds(resp[3][1]) # {})
    => /\ pc = "returned"
       /\ result[1][1] = TRUE
       /\ result[1][2] \in {Some(h) : h \in PresentIds(resp[3][1])}

\* C9 amended: when step 3 is answered with 201 and at least one of the two
\* identifier headers, publish returns success with the x-linkedin-id value
\* when that header is present and non-empty, otherwise with the x-restli-id
\* value when x-restli-id is present, and otherwise (an empty x-linkedin-id
\* alone) with None.
C9_ReturnsHeaderValueOrNone ==
    (Answered(3) /\ resp[3][1].status = Created
                 /\ PresentIds(resp[3][1]) # {})
    => /\ pc = "returned"
       /\ result[1][1] = TRUE
       /\ result[1][2] =
             IF resp[3][1].li \notin {Absent, ""} THEN Some(resp[3][1].li)
             ELSE IF resp[3][1].restli # Absent THEN Some(resp[3][1].restli)
             ELSE None

C9_Witness ==
    /\ pc = "returned"
    /\ resp[3][1].li = Absent
    /\ resp[3][1].restli = "urn:li:share:123"
    /\ result = Some(<<TRUE, Some("urn:li:share:123")>>)

\* The requests sent by invocation a.
CallsOf(a) == SelectSeq(calls, LAMBDA c : c.attempt = a)

\* C10: every invocation sends initializeUpload first, and the upload URL of
\* each PUT and the image URN of each post are those step 1 returned in the
\* same invocation, whatever the outcome of the invocations before it.
C10_SessionOfSameInvocation ==
    /\ pc \notin {"idle", "step1"}
         => /\ Len(CurrentCalls) >= 1
            /\ CurrentCalls[1].op = "initializeUpload"
    /\ \A i \in 1..Len(calls) :
          calls[i].op \in {"put", "posts"}
            => /\ calls[i].arg # None
               /\ calls[i].arg[1] \in 1..Len(issuedIn)
               /\ issuedIn[calls[i].arg[1]] = calls[i].attempt

C10_Witness ==
    /\ attempt = 2
    /\ pc = "returned"
    /\ Ops(CallsOf(1)) = <<"initializeUpload", "put">>
    /\ Ops(CallsOf(2)) = Protocol

\* The number of requests to endpoint op addressed with session value arg.
Uses(op, arg) ==
    Len(SelectSeq(calls, LAMBDA c : c.op = op /\ c.arg = arg))

\* C11 as stated: once an invocation that obtained an upload session has
\* ended, by returning or by raising, its upload URL was the target of
\* exactly one PUT and its image URN the attachment of exactly one post.
C11_SessionUsedExactlyOnce ==
    pc \in {"returned", "raised"} /\ upload_url # None /\ image_urn # None
        => /\ Uses("put", upload_url) = 1
           /\ Uses("posts", image_urn) = 1

\* C11, amended: over any sequence of invocations, every upload session is
\* the target of at most one PUT and its image URN the attachment of at most
\* one post, the post never without the PUT; an invocation that returned
\* used its session for exactly one PUT and exactly one post.
C11_SessionUsedAtMostOnce ==
    /\ \A s \in 1..Len(issuedIn) :
          /\ Uses("put", Some(s)) <= 1
          /\ Uses("posts", Some(s)) <= Uses("put", Some(s))
    /\ pc = "returned"
          => /\ upload_url # None /\ image_urn # None
             /\ Uses("put", upload_url) = 1
             /\ Uses("posts", image_urn) = 1

C11_Witness ==
    /\ attempt = 3
    /\ pc = "returned"
    /\ Ops(CallsOf(1)) = <<"initializeUpload", "put">>
    /\ Ops(CallsOf(2)) = Protocol
    /\ Uses("put", upload_url) = 1

\* C12: when the image file given to publish_to_linkedin does not exist or is
\* empty, the invocation sends no request at all (step 1 is not invoked) and
\* does not return a success.
C12_BadFileFailsBeforeAnyRequest ==
    file \in {"missing", "empty"} /\ pc # "idle"
        => /\ Len(CurrentCalls) = 0
           /\ pc # "returned"

\* C16: when the invocation has ended after its step 3 request, what it
\* returned or raised is what a service constructed with the other kind of
\* console (a logger instead of none, none instead of a logger) returns or
\* raises for the same answer to the same request.
C16_OutcomeIndependentOfConsole ==
    pc \in {"returned", "raised"} /\ resp[3] # None
        => \A con \in Consoles :
              LET out == create_post_with_image_result(resp[3][1], con)
              IN  /\ out.raised <=> pc = "raised"
                  /\ pc = "raised" => out.exc = exc[1]
                  /\ pc = "returned" => out.value = result[1]

\* The environment variables of the credential.
CredentialEnv ==
    {"LINKEDIN_ACCESS_TOKEN", "LINKEDIN_USER_URN", "LINKEDIN_API_VERSION"}

Missing(var_name) == env[var_name] = Unset \/ env[var_name] = ""

\* C13 as stated: once the script has initialised, if the access token, the
\* author URN or the API version is unset or empty, the initialisation has
\* failed, the process has sent no request and no publication has started.
C13_MissingCredentialFieldFailsInit ==
    pc # "start" /\ (\E v \in CredentialEnv : Missing(v))
        => /\ ~session_state.env_vars_loaded
           /\ ~net_used
           /\ calls = <<>>
           /\ attempt = 0

\* C13, amended: if the access token or the author URN (or another variable
\* get_env_variable_st is asked for) is unset or empty, the initialisation
\* fails, no service exists, the process sends no request and no publication
\* starts; the API version is optional: when the initialisation succeeded
\* the service holds the token and the URN of the environment, both
\* non-empty, and as API version the value of the environment, empty
\* included, or 202504 when the variable is unset.
C13_MissingTokenOrUrnFailsInit ==
    /\ pc = "start" => ~net_used /\ calls = <<>> /\ attempt = 0
    /\ pc # "start" /\ (\E v \in RequiredEnv : Missing(v))
          => /\ ~session_state.env_vars_loaded
             /\ service = NoService
             /\ ~net_used
             /\ calls = <<>>
             /\ attempt = 0
    /\ session_state.env_vars_loaded
          => /\ ~Missing("LINKEDIN_ACCESS_TOKEN")
             /\ ~Missing("LINKEDIN_USER_URN")
             /\ service.access_token = env["LINKEDIN_ACCESS_TOKEN"]
             /\ service.user_urn = env["LINKEDIN_USER_URN"]
             /\ service.api_version =
                    IF env["LINKEDIN_API_VERSION"] = Unset
                    THEN DefaultApiVersion
                    ELSE env["LINKEDIN_API_VERSION"]

C13_Witness ==
    /\ pc = "idle"
    /\ env["LINKEDIN_ACCESS_TOKEN"] = ""
    /\ env["LINKEDIN_USER_URN"] = "v"
    /\ env["LINKEDIN_API_VERSION"] = "v"
    /\ message = Message("session_init", "error")

\* A step of publish_to_linkedin: its entry, one of its three calls, its
\* return or its raise.
PublishStep ==
    \/ attempt' # attempt
    \/ pc \in {"step1", "step2", "step3"} /\ (pc' # pc \/ calls' # calls)

\* A step of the program, as opposed to one of its environment, which only
\* touches the disk.
ProgramStep ==
    <<pc, attempt, calls, session_state, message, tmp_count>>'
        # <<pc, attempt, calls, session_state, message, tmp_count>>

\* C14: no step of publish_to_linkedin, whether the invocation goes on,
\* returns or raises at any of its calls, creates, deletes or changes a file:
\* the image file is there with the same content after the step as before
\* it.  The only step of the program that deletes a file is the cleanup the
\* script runs after publish_to_linkedin has returned, and it deletes the
\* file of the session's temporary path and no other.
C14_PublishOnlyReadsImage ==
    [][/\ PublishStep => disk' = disk
       /\ ProgramStep /\ (\E f \in disk : f \notin disk')
             => /\ pc = "returned" /\ pc' = "idle"
                /\ session_state.image_path_temp # None
                /\ disk' = {f \in disk :
                               f.path # session_state.image_path_temp[1]}
      ]_vars

C14_Witness ==
    /\ pc = "raised"
    /\ resp[2] # None
    /\ resp[3] # None
    /\ file = "data"
    /\ session_state.image_path_temp = image_path

\* C15: in every state, after any sequence of invocations and of their
\* calls, successful or failed, the access token, the author URN and the API
\* version of the service are those it was constructed with from the
\* environment.
C15_CredentialUnchanged ==
    /\ service = LinkedInPostAutomation.value
    /\ service.access_token = env["LINKEDIN_ACCESS_TOKEN"]
    /\ service.user_urn = env["LINKEDIN_USER_URN"]
    /\ service.api_version = DefaultApiVersion

C15_Witness ==
    /\ attempt = 2
    /\ pc = "returned"
    /\ Ops(CallsOf(1)) = <<"initializeUpload">>
    /\ service.access_token = "v"

\* C17: when publish_to_linkedin raised at any of its steps, the script
\* displays an error and leaves the session state and the files as they are
\* (text to publish, temporary path and temporary file are kept), so that
\* the publish button is there again with a text and a path; every
\* publication the script starts, a retry included, starts at step 1 without
\* upload URL or image URN, and its first request is initializeUpload.
C17_FailureKeepsSessionAndRetriesFromStep1 ==
    [][/\ pc = "raised" /\ pc' = "idle"
             => /\ message' = Message("publish_button", "error")
                /\ session_state' = session_state
                /\ disk' = disk
                /\ session_state'.generated_content # ""
                /\ session_state'.cleaned_text_for_publish # ""
                /\ session_state'.image_path_temp # None
       /\ attempt' # attempt
             => /\ pc' = "step1"
                /\ upload_url' = None /\ image_urn' = None
                /\ calls' = calls
       /\ pc = "step1" /\ pc' # pc
             => /\ Len(calls') = Len(calls) + 1
                /\ calls'[Len(calls')].op = "initializeUpload"
                /\ calls'[Len(calls')].attempt = attempt
      ]_vars

C17_Witness ==
    /\ attempt = 2
    /\ tmp_count = 1
    /\ pc = "step2"
    /\ Ops(CallsOf(1)) = Protocol
    /\ Ops(CallsOf(2)) = <<"initializeUpload">>
    /\ message = Message("publish_button", "spinner")

\* The text to publish is not empty, a temporary path is recorded and there
\* is a file at that path.
CanPublish ==
    /\ session_state.cleaned_text_for_publish # ""
    /\ session_state.image_path_temp # None
    /\ exists(session_state.image_path_temp[1])

\* C18: publish_to_linkedin is entered only when, at that moment, the text
\* to publish is not empty, a temporary path is recorded and the file at
\* that path exists, and it is entered with that text and that path; a
\* click on the publish button in any other state displays an error, starts
\* no publication and sends no request.
C18_PublishOnlyWithTextAndImage ==
    [][/\ attempt' # attempt
             => /\ CanPublish
                /\ text_content' =
                       Some(session_state.cleaned_text_for_publish)
                /\ image_path' = session_state.image_path_temp
       /\ (/\ pc = "idle" /\ ~CanPublish
           /\ message' # message /\ message'.handler = "publish_button")
             => /\ message'.level = "error"
                /\ UNCHANGED <<pc, attempt, calls, net_used>>
      ]_vars

C18_Witness ==
    /\ pc = "idle"
    /\ attempt = 0
    /\ message = Message("publish_button", "error")
    /\ session_state.cleaned_text_for_publish # ""
    /\ session_state.image_path_temp # None
    /\ ~exists(session_state.image_path_temp[1])

\* The fields the script resets after a success hold their initial values.
SessionCleared(ss) ==
    /\ ss.generated_content = ""
    /\ ss.cleaned_text_for_publish = ""
    /\ ss.image_url = None
    /\ ss.image_path_temp = None
    /\ ss.topic_input_value = ""
    /\ ss.suggested_topics = <<>>

C20_NoOrphanTemporaryImage ==
    \A f \in disk :
        f.content = "data" => session_state.image_path_temp = Some(f.path)

\* s holds three newlines in a row.
HasBlankRun(s) ==
    \E i \in 1..(Len(s) - 2) : s[i] = LF /\ s[i + 1] = LF /\ s[i + 2] = LF

\* C21: the cleaned text of every generated text, lines made only of spaces
\* or tabs included, holds no carriage return and no three newlines in a
\* row, and cleaning it again returns it unchanged.
C21_CleanedTextIsClean ==
    post_content_cleaned # None
        => /\ \A i \in 1..Len(post_content_cleaned[1]) :
                 post_content_cleaned[1][i] # CR
           /\ ~HasBlankRun(post_content_cleaned[1])
           /\ CleanText(post_content_cleaned[1]) = post_content_cleaned[1]

====
